---- MODULE Spec2Model ----
(***************************************************************************)
(* The two search engines of the repository as one state machine:          *)
(*   GeneticAlgorithm::run         src/stochastic/GeneticAlgorithm.h       *)
(*   HillClimbingAlgorithm::run    src/stochastic/HillClimbingAlgorithm.h  *)
(* A run starts with the options it was given, follows the statements of   *)
(* run() (pc names the position) and ends in "returned", "thrown" or       *)
(* "crashed".  Vectors keep the 0-based indices of the source.             *)
(*                                                                         *)
(* Two further specifications share the variables:                         *)
(*   PopulatorSpec  generate(), mutate() and fillRow() of                  *)
(*                  src/gensudoku/GenSudokuBoardGAPopulator.h, called by   *)
(*                  two callers at once;                                   *)
(*   FanOutSpec     one generation of GeneticAlgorithm::run with the       *)
(*                  bodies of its two parallel loops followed statement    *)
(*                  by statement and the generator they draw from.         *)
(* Each specification leaves the variables of the others as they are.      *)
(***************************************************************************)
EXTENDS Integers, FiniteSets, Sequences, TLC

VARIABLES
    engine,            \* which run() is executing: "GA" or "HC"
    options,           \* the Options record handed to run()
    pc,                \* position in run()
    best,              \* pointer_type best
    result,            \* the pointer run() returned (NULL before, or nullptr)
    prevGeneration,    \* std::vector<pointer_type> prevGeneration
    nextGeneration,    \* std::vector<pointer_type> nextGeneration
    max_init,          \* size_t max_init
    i,                 \* loop index of the initial population loop
    generation,        \* size_t generation
    deadRounds,        \* uint64_t deadRounds
    fitness_increased, \* bool fitness_increased
    kill_threshold,    \* const auto kill_threshold
    built,             \* pair-slots of the build fan-out that have completed
    swept,             \* slots of the kill fan-out that have completed
    replaced,          \* slots the kill fan-out regenerated in this generation
    generateCalls,     \* generate() calls counted in this generation
    called,            \* whether a populator or selector was invoked yet
    attained,          \* whether generate() alone produced a candidate that
                       \* reaches the success threshold (the initial
                       \* population, or the starting candidate of round 0)
    round,             \* uint64_t round
    iteration,         \* uint64_t iteration
    cur,               \* pointer_type cur
    next,              \* pointer_type next
    chain,             \* the neighbours generated in this round, each with
                       \* the candidate it was generated from; the head is
                       \* the starting candidate of the round
    partial_board,     \* GenSudokuBoardPopulator::partial_board
    cell_candidates,   \* GenSudokuBoardPopulator::cell_candidates
    rowEmptyPositions, \* std::vector<std::vector<size_t>> rowEmptyPositions
    rowMissingEntries, \* std::vector<std::vector<size_t>> rowMissingEntries
    call,              \* per caller, the populator call it is executing
    overlapped,        \* whether two populator calls were ever active at once
    gen,               \* auto &gen: the state of the shared generator
    slot,              \* per slot of the running fan-out, its position in
                       \* the loop body and its locals
    writes,            \* per position of nextGeneration, the slots that
                       \* stored into it during the running fan-out
    fanStart           \* gen and prevGeneration as the running fan-out
                       \* found them

vars == <<engine, options, pc, best, result, prevGeneration, nextGeneration,
          max_init, i, generation, deadRounds, fitness_increased,
          kill_threshold, built, swept, replaced, generateCalls, called,
          attained, round, iteration, cur, next, chain, partial_board,
          cell_candidates, rowEmptyPositions, rowMissingEntries, call,
          overlapped, gen, slot, writes, fanStart>>

gaVars == <<prevGeneration, nextGeneration, max_init, i, generation, deadRounds,
            fitness_increased, kill_threshold, built, swept, replaced>>

hcVars == <<round, iteration, cur, next, chain>>

populatorVars == <<partial_board, cell_candidates, rowEmptyPositions,
                   rowMissingEntries, call, overlapped>>

fanVars == <<gen, slot, writes, fanStart>>

-----------------------------------------------------------------------------
(* Bounds of the exploration *)

\* Candidates are 0 .. MaxCandidate.
MaxCandidate == 3

\* A run whose generation budget is larger (max_generations = 0 wraps to
\* UINT64_MAX generations) is followed for MaxGenerations generations.
MaxGenerations == 2

\* max_rounds and max_iterations_per_round are drawn from 0 .. MaxRounds.
MaxRounds == 2

(* Program constants *)

\* UINT64_MAX: stands for 2^64 - 1.  It is only ever compared with counters
\* that stay far below it, so the largest integer of the checker serves.
UINT64_MAX == 2147483647

\* nullptr
NULL == -1

-----------------------------------------------------------------------------
(* Candidates and the collaborators *)

Candidates == 0 .. MaxCandidate

\* Candidate::fitness(): a function of the candidate's content.  Candidates
\* 2k-1 and 2k (k >= 1) are different candidates of equal fitness k.
Fitness(c) == (c + 1) \div 2

MaxFitness == Fitness(MaxCandidate)

\* Populator::generate(): a fresh candidate, any of the search space.
Generate == Candidates

\* Populator::mutate(c): a new candidate, independent of c.
Mutate(c) == Candidates

\* Populator::crossover(p0, p1): two new candidates.
Crossover(p0, p1) == Candidates \X Candidates

\* a survive(c) that returns a candidate of other content
SurviveAltered(c) == (c + 1) % (MaxCandidate + 1)

\* Populator::survive(c): an independent copy with the content of c.
Survive(c) == c

\* HillClimbingPopulator::generateNeighbour(c)
GenerateNeighbour(c) == Candidates

\* Selector::select(population): an index of the population.
Select(population) == DOMAIN population

\* std::uniform_real_distribution<double> draws from [0, 1); probabilities
\* and draws are counted in halves: draw 0 is 0.0, draw 1 is 0.5.
Draws == {0, 1}

-----------------------------------------------------------------------------
(* Helpers *)

Max(a, b) == IF a >= b THEN a ELSE b

\* x - 1 in uint64_t arithmetic
Dec64(x) == IF x = 0 THEN UINT64_MAX ELSE x - 1

\* std::vector<pointer_type> v{n}: n null pointers
NewGeneration(n) == [k \in 0 .. n - 1 |-> NULL]

\* a moved-from (empty) vector
EmptyGeneration == NewGeneration(0)

\* a max_element that returns the last of the largest
LastMax(v) ==
    CHOOSE k \in DOMAIN v :
        /\ \A j \in DOMAIN v : Fitness(v[j]) <= Fitness(v[k])
        /\ \A j \in DOMAIN v : j > k => Fitness(v[j]) < Fitness(v[k])

\* std::max_element with operator< on fitness: the first of the largest
FirstMax(v) ==
    CHOOSE k \in DOMAIN v :
        /\ \A j \in DOMAIN v : Fitness(v[j]) <= Fitness(v[k])
        /\ \A j \in DOMAIN v : j < k => Fitness(v[j]) < Fitness(v[k])

\* std::shuffle: every rearrangement of the vector
Shuffles(v) ==
    LET D == DOMAIN v
        Perms == {p \in [D -> D] : \A a, b \in D : a # b => p[a] # p[b]}
    IN  {[k \in D |-> v[p[k]]] : p \in Perms}

\* static_cast<Fitness>(fitness_death_factor * best->fitness()), the factor
\* counted in halves, Fitness integral (the cast truncates)
ScaledBest(factor, b) == (factor * Fitness(b)) \div 2

\* lines 155-157 without the relative term
KillThresholdAbsoluteOnly(opts, b) == opts.fitness_death_threshold

\* std::max(fitness_death_threshold, static_cast<Fitness>(factor * best))
KillThreshold(opts, b) ==
    Max(opts.fitness_death_threshold, ScaledBest(opts.fitness_death_factor, b))

\* line 140 with the comparison turned round
ImprovesReversed(c, b) == Fitness(c) < Fitness(b)

\* line 140: the fittest of the generation replaces best
Improves(c, b) == Fitness(c) > Fitness(b)

\* line 144 with > for >=
GASucceededStrictly(opts, b) == Fitness(b) > opts.fitness_success_threshold

\* line 144: the test that ends the run with success
GASucceeded(opts, b) == Fitness(b) >= opts.fitness_success_threshold

\* lines 148-151 without the reset
NextDeadRoundsNoReset(increased, dead) == dead + 1

\* lines 148-151: the dead-round update
NextDeadRounds(increased, dead) == IF increased THEN 0 ELSE dead + 1

\* line 162 without the dead-round test
DoomedByFitnessOnly(opts, dead, threshold, c) == Fitness(c) <= threshold

\* the condition of line 162
Doomed(opts, dead, threshold, c) ==
    dead >= opts.permissible_dead_rounds \/ Fitness(c) <= threshold

\* lines 164-168 with > for >=
ResetDeadRoundsStrictly(opts, dead) ==
    IF dead > opts.permissible_dead_rounds THEN 0 ELSE dead

\* lines 164-168: the forced reset after the kill pass
ResetDeadRounds(opts, dead) ==
    IF dead >= opts.permissible_dead_rounds THEN 0 ELSE dead

-----------------------------------------------------------------------------
(* The options a run may be given *)

\* Both probabilities are 0.5 (1 half): with the draws of Draws a pair-slot
\* may breed or not, and a child may be mutated or not.
GAOptions ==
    [populator : {NULL, 1},
     population_size : 0 .. 3,
     max_generations : {0, 1, 2},
     crossover_probability : {1},
     mutation_probability : {1},
     fitness_success_threshold : 1 .. MaxFitness + 1,
     fitness_death_threshold : {0, 1},
     fitness_death_factor : {0, 1, 2},
     permissible_dead_rounds : {0, 1, 2, UINT64_MAX}]

\* accept() is virtual: the default of lines 94-96, or an override that
\* accepts every neighbour
AcceptPolicies == {"improving", "always"}

HCOptions ==
    [populator : {NULL, 1},
     max_rounds : 0 .. MaxRounds,
     max_iterations_per_round : 0 .. MaxRounds,
     fitness_success_threshold : 1 .. MaxFitness + 1,
     accept : AcceptPolicies]

Init ==
    /\ \/ engine = "GA" /\ options \in GAOptions
       \/ engine = "HC" /\ options \in HCOptions
    /\ pc = "start"
    /\ best = NULL
    /\ result = NULL
    /\ prevGeneration = EmptyGeneration
    /\ nextGeneration = EmptyGeneration
    /\ max_init = 0
    /\ i = 0
    /\ generation = 0
    /\ deadRounds = 0
    /\ fitness_increased = FALSE
    /\ kill_threshold = 0
    /\ built = {}
    /\ swept = {}
    /\ replaced = {}
    /\ generateCalls = 0
    /\ called = FALSE
    /\ attained = FALSE
    /\ round = 0
    /\ iteration = 0
    /\ cur = NULL
    /\ next = NULL
    /\ chain = <<>>
    /\ partial_board = <<>>
    /\ cell_candidates = <<>>
    /\ rowEmptyPositions = <<>>
    /\ rowMissingEntries = <<>>
    /\ call = <<>>
    /\ overlapped = FALSE
    /\ gen = 0
    /\ slot = <<>>
    /\ writes = <<>>
    /\ fanStart = <<>>

-----------------------------------------------------------------------------
(* GeneticAlgorithm::run *)

\* lines 82-85 without the parity check
GAInvalidPopulatorOnly(opts) == opts.populator = NULL

\* lines 82-85: the two checks that throw std::invalid_argument
GAInvalid(opts) == opts.populator = NULL \/ opts.population_size % 2 = 1

\* lines 81-98: validate, then deadRounds, max_init and prevGeneration{n}
GAValidate ==
    /\ engine = "GA" /\ pc = "start"
    /\ IF GAInvalid(options)
       THEN /\ pc' = "thrown"
            /\ UNCHANGED prevGeneration
       ELSE /\ pc' = "init"
            /\ prevGeneration' = NewGeneration(options.population_size)
    /\ UNCHANGED <<populatorVars, fanVars,
                   engine, options, best, result, nextGeneration, max_init, i,
                   generation, deadRounds, fitness_increased, kill_threshold,
                   built, swept, replaced, generateCalls, called, hcVars,
                   attained>>

\* lines 99-104: one iteration of the initial population loop
GAGenerateInitial ==
    /\ engine = "GA" /\ pc = "init"
    /\ i < options.population_size
    /\ \E g \in Generate :
        /\ prevGeneration' = [prevGeneration EXCEPT ![i] = g]
        /\ max_init' = IF Fitness(g) > Fitness(prevGeneration'[max_init])
                       THEN i ELSE max_init
    /\ i' = i + 1
    /\ generateCalls' = generateCalls + 1
    /\ called' = TRUE
    /\ UNCHANGED <<populatorVars, fanVars,
                   engine, options, pc, best, result, nextGeneration,
                   generation, deadRounds, fitness_increased, kill_threshold,
                   built, swept, replaced, hcVars, attained>>

\* line 107: best = survive(prevGeneration[max_init]).  On an empty vector
\* the subscript is out of bounds: undefined behaviour, here a crash or the
\* read of some object.
GASurviveInitial ==
    /\ engine = "GA" /\ pc = "init"
    /\ i >= options.population_size
    /\ IF max_init \in DOMAIN prevGeneration
       THEN /\ best' = Survive(prevGeneration[max_init])
            /\ pc' = "loop"
       ELSE \/ /\ pc' = "crashed"
               /\ UNCHANGED best
            \/ /\ best' \in Candidates
               /\ pc' = "loop"
    /\ called' = TRUE
    /\ attained' =
         \E k \in DOMAIN prevGeneration :
            Fitness(prevGeneration[k]) >= options.fitness_success_threshold
    /\ UNCHANGED <<populatorVars, fanVars,
                   engine, options, result, prevGeneration, nextGeneration,
                   max_init, i, generation, deadRounds, fitness_increased,
                   kill_threshold, built, swept, replaced, generateCalls,
                   hcVars>>

\* line 110, true: a generation begins (line 112)
GABeginGeneration ==
    /\ engine = "GA" /\ pc = "loop"
    /\ generation < Dec64(options.max_generations)
    /\ generation < MaxGenerations
    /\ nextGeneration' = NewGeneration(options.population_size)
    /\ generateCalls' = 0
    /\ pc' = "build"
    /\ UNCHANGED <<populatorVars, fanVars,
                   engine, options, best, result, prevGeneration, max_init, i,
                   generation, deadRounds, fitness_increased, kill_threshold,
                   built, swept, replaced, called, hcVars, attained>>

\* line 110, false, and line 185: the budget is used up
GAReturnBest ==
    /\ engine = "GA" /\ pc = "loop"
    /\ ~(generation < Dec64(options.max_generations))
    /\ result' = best
    /\ pc' = "returned"
    /\ UNCHANGED <<populatorVars, fanVars,
                   engine, options, best, gaVars, generateCalls, called,
                   hcVars, attained>>

\* lines 119-133: what pair-slot s may store in positions 2s and 2s+1
BuildOutcomes(opts, prev, s) ==
    LET Bred ==
          UNION {
            LET children == Crossover(prev[p[1]], prev[p[2]])
            IN  UNION {
                  {<<n0, n1>> :
                     n0 \in IF d[1] < opts.mutation_probability
                            THEN Mutate(c[1]) ELSE {c[1]},
                     n1 \in IF d[2] < opts.mutation_probability
                            THEN Mutate(c[2]) ELSE {c[2]}} :
                  c \in children, d \in Draws \X Draws} :
            p \in Select(prev) \X Select(prev)}
        Kept == {<<Survive(prev[2 * s]), Survive(prev[2 * s + 1])>>}
    IN  UNION {IF d < opts.crossover_probability THEN Bred ELSE Kept :
               d \in Draws}

\* lines 117-134: the body of the build loop for pair-slot s
GABuildSlot(s) ==
    /\ engine = "GA" /\ pc = "build"
    /\ s \in (0 .. (options.population_size \div 2) - 1) \ built
    /\ \E out \in BuildOutcomes(options, prevGeneration, s) :
         nextGeneration' = [nextGeneration EXCEPT ![2 * s] = out[1],
                                                  ![2 * s + 1] = out[2]]
    /\ called' = TRUE
    /\ built' = built \cup {s}
    /\ UNCHANGED <<populatorVars, fanVars,
                   engine, options, pc, best, result, prevGeneration,
                   max_init, i, generation, deadRounds, fitness_increased,
                   kill_threshold, swept, replaced, generateCalls, hcVars,
                   attained>>

\* lines 136-143, entered when every pair-slot has completed: the fittest of
\* the new generation replaces best if it is strictly fitter.  On an empty
\* vector max_element returns end(), whose dereference is undefined.
GAUpdateBest ==
    /\ engine = "GA" /\ pc = "build"
    /\ built = 0 .. (options.population_size \div 2) - 1
    /\ \/ /\ DOMAIN nextGeneration = {}
          /\ pc' = "crashed"
          /\ UNCHANGED <<best, fitness_increased, called>>
       \/ \E fittest \in IF DOMAIN nextGeneration = {}
                         THEN Candidates
                         ELSE {nextGeneration[FirstMax(nextGeneration)]} :
            IF Improves(fittest, best)
            THEN /\ best' = Survive(fittest)
                 /\ fitness_increased' = TRUE
                 /\ called' = TRUE
                 /\ pc' = "fittest"
            ELSE /\ fitness_increased' = FALSE
                 /\ pc' = "fittest"
                 /\ UNCHANGED <<best, called>>
    /\ UNCHANGED <<populatorVars, fanVars,
                   engine, options, result, prevGeneration, nextGeneration,
                   max_init, i, generation, deadRounds, kill_threshold, built,
                   swept, replaced, generateCalls, hcVars, attained>>

\* lines 144-147: success returns best at once
GACheckSuccess ==
    /\ engine = "GA" /\ pc = "fittest"
    /\ IF GASucceeded(options, best)
       THEN /\ result' = best
            /\ pc' = "returned"
       ELSE /\ pc' = "dead"
            /\ UNCHANGED result
    /\ UNCHANGED <<populatorVars, fanVars,
                   engine, options, best, gaVars, generateCalls, called,
                   hcVars, attained>>

\* lines 148-157: the dead-round update and the kill threshold
GAUpdateDeadRounds ==
    /\ engine = "GA" /\ pc = "dead"
    /\ deadRounds' = NextDeadRounds(fitness_increased, deadRounds)
    /\ kill_threshold' = KillThreshold(options, best)
    /\ pc' = "kill"
    /\ UNCHANGED <<populatorVars, fanVars,
                   engine, options, best, result, prevGeneration,
                   nextGeneration, max_init, i, generation, fitness_increased,
                   built, swept, replaced, generateCalls, called, hcVars,
                   attained>>

\* lines 161-163: the body of the kill loop for slot s
GAKillSlot(s) ==
    /\ engine = "GA" /\ pc = "kill"
    /\ s \in (0 .. options.population_size - 1) \ swept
    /\ IF Doomed(options, deadRounds, kill_threshold, nextGeneration[s])
       THEN /\ \E g \in Generate :
                 nextGeneration' = [nextGeneration EXCEPT ![s] = g]
            /\ replaced' = replaced \cup {s}
            /\ generateCalls' = generateCalls + 1
            /\ called' = TRUE
       ELSE UNCHANGED <<nextGeneration, replaced, generateCalls, called>>
    /\ swept' = swept \cup {s}
    /\ UNCHANGED <<populatorVars, fanVars,
                   engine, options, pc, best, result, prevGeneration,
                   max_init, i, generation, deadRounds, fitness_increased,
                   kill_threshold, built, hcVars, attained>>

\* lines 164-168, entered when every slot has been swept
GAKillReset ==
    /\ engine = "GA" /\ pc = "kill"
    /\ swept = 0 .. options.population_size - 1
    /\ deadRounds' = ResetDeadRounds(options, deadRounds)
    /\ pc' = "handover"
    /\ UNCHANGED <<populatorVars, fanVars,
                   engine, options, best, result, prevGeneration,
                   nextGeneration, max_init, i, generation, fitness_increased,
                   kill_threshold, built, swept, replaced, generateCalls,
                   called, hcVars, attained>>

\* lines 170-182: the progress line, the hand-over, the shuffle, ++generation
GAEndGeneration ==
    /\ engine = "GA" /\ pc = "handover"
    /\ prevGeneration' \in Shuffles(nextGeneration)
    /\ nextGeneration' = EmptyGeneration
    /\ fitness_increased' = FALSE
    /\ kill_threshold' = 0
    /\ built' = {}
    /\ swept' = {}
    /\ replaced' = {}
    /\ generateCalls' = 0
    /\ generation' = generation + 1
    /\ pc' = "loop"
    /\ UNCHANGED <<populatorVars, fanVars,
                   engine, options, best, result, max_init, i, deadRounds,
                   called, hcVars, attained>>

-----------------------------------------------------------------------------
(* HillClimbingAlgorithm::run *)

\* line 43 left out
HCInvalidNever(opts) == FALSE

\* line 43: the check that throws std::invalid_argument
HCInvalid(opts) == opts.populator = NULL

\* an accept() that rejects every neighbour
AcceptNone(policy, nxt, c) == FALSE

\* lines 94-96 (the default), or the override that accepts everything
Accept(policy, nxt, c) ==
    IF policy = "always" THEN TRUE ELSE Fitness(nxt) > Fitness(c)

\* line 63: the test that ends the run with success
HCSucceeded(opts, c) == Fitness(c) >= opts.fitness_success_threshold

\* line 67: is the current candidate the best seen so far?
IsNewBest(b, c) == b = NULL \/ Fitness(b) < Fitness(c)

\* lines 42-47: validate, then best = nullptr
HCValidate ==
    /\ engine = "HC" /\ pc = "start"
    /\ pc' = IF HCInvalid(options) THEN "thrown" ELSE "round"
    /\ UNCHANGED <<populatorVars, fanVars,
                   engine, options, best, result, gaVars, generateCalls,
                   called, hcVars, attained>>

\* line 49, true, and lines 51-54: a round begins with a fresh candidate
HCBeginRound ==
    /\ engine = "HC" /\ pc = "round"
    /\ round < options.max_rounds
    /\ cur' \in Generate
    /\ chain' = <<<<NULL, cur'>>>>
    /\ iteration' = 0
    /\ called' = TRUE
    /\ attained' = IF round = 0
                   THEN Fitness(cur') >= options.fitness_success_threshold
                   ELSE attained
    /\ pc' = "iterate"
    /\ UNCHANGED <<populatorVars, fanVars,
                   engine, options, best, result, gaVars, generateCalls,
                   round, next>>

\* line 56, true, and lines 58-60: the neighbour and the accept step
HCNeighbour ==
    /\ engine = "HC" /\ pc = "iterate"
    /\ iteration < options.max_iterations_per_round
    /\ \E n \in GenerateNeighbour(cur) :
         /\ next' = n
         /\ cur' = IF Accept(options.accept, n, cur) THEN n ELSE cur
         /\ chain' = Append(chain, <<cur, n>>)
    /\ called' = TRUE
    /\ pc' = "accepted"
    /\ UNCHANGED <<populatorVars, fanVars,
                   engine, options, best, result, gaVars, generateCalls,
                   round, iteration, attained>>

\* lines 62-71: success returns cur at once; otherwise best is tracked
HCCheck ==
    /\ engine = "HC" /\ pc = "accepted"
    /\ IF HCSucceeded(options, cur)
       THEN /\ result' = cur
            /\ pc' = "returned"
            /\ UNCHANGED <<best, iteration, next>>
       ELSE /\ best' = IF IsNewBest(best, cur) THEN cur ELSE best
            /\ iteration' = iteration + 1
            /\ next' = NULL
            /\ pc' = "iterate"
            /\ UNCHANGED result
    /\ UNCHANGED <<populatorVars, fanVars,
                   engine, options, gaVars, generateCalls, called, round, cur,
                   chain, attained>>

\* line 56, false: the round is over, cur and state go out of scope
HCEndRound ==
    /\ engine = "HC" /\ pc = "iterate"
    /\ ~(iteration < options.max_iterations_per_round)
    /\ round' = round + 1
    /\ iteration' = 0
    /\ cur' = NULL
    /\ chain' = <<>>
    /\ pc' = "round"
    /\ UNCHANGED <<populatorVars, fanVars,
                   engine, options, best, result, gaVars, generateCalls,
                   called, next, attained>>

\* line 49, false, and line 75: every round is used up
HCReturnBest ==
    /\ engine = "HC" /\ pc = "round"
    /\ ~(round < options.max_rounds)
    /\ result' = best
    /\ pc' = "returned"
    /\ UNCHANGED <<populatorVars, fanVars,
                   engine, options, best, gaVars, generateCalls, called,
                   hcVars, attained>>

-----------------------------------------------------------------------------

Next ==
    \/ GAValidate
    \/ GAGenerateInitial
    \/ GASurviveInitial
    \/ GABeginGeneration
    \/ GAReturnBest
    \/ \E s \in 0 .. 1 : GABuildSlot(s)
    \/ GAUpdateBest
    \/ GACheckSuccess
    \/ GAUpdateDeadRounds
    \/ \E s \in 0 .. 3 : GAKillSlot(s)
    \/ GAKillReset
    \/ GAEndGeneration
    \/ HCValidate
    \/ HCBeginRound
    \/ HCNeighbour
    \/ HCCheck
    \/ HCEndRound
    \/ HCReturnBest

Spec == Init /\ [][Next]_vars

-----------------------------------------------------------------------------
(* GenSudokuBoardGAPopulator<N>: generate(), mutate() and fillRow(), called  *)
(* by up to two callers at once, as the slots of a parallel fan-out do.      *)

\* the template parameter N and NN = N * N, for boards of 4 x 4 cells
N == 2

NN == N * N

Rows == 0 .. NN - 1

Positions == 0 .. NN * NN - 1

Entries == 1 .. NN

\* the callers that may be inside the populator at a time
Callers == {1, 2}

\* a board written row by row; position row * NN + col, 0 for an empty cell
FromRows(rows) ==
    [pos \in Positions |-> rows[(pos \div NN) + 1][(pos % NN) + 1]]

\* the partial boards a populator is constructed with
PartialBoards ==
    {FromRows(<<<<0, 0, 3, 4>>, <<3, 4, 0, 0>>, <<2, 1, 4, 3>>,
                <<4, 3, 2, 1>>>>),
     FromRows(<<<<0, 0, 0, 4>>, <<3, 4, 1, 2>>, <<2, 1, 4, 3>>,
                <<4, 3, 2, 1>>>>)}

\* the givens that share a row, a column or an N x N box with pos
Peers(p, pos) ==
    {p[q] : q \in {q \in Positions :
                     \/ q \div NN = pos \div NN
                     \/ q % NN = pos % NN
                     \/ /\ (q \div NN) \div N = (pos \div NN) \div N
                        /\ (q % NN) \div N = (pos % NN) \div N}}

\* cell_candidates is computed by the base class and only read here.  Two
\* tables are explored: every entry in every cell, and the entries that the
\* givens of the cell's row, column and box leave.
CandidateTables(p) ==
    {[pos \in Positions |-> Entries],
     [pos \in Positions |-> Entries \ Peers(p, pos)]}

\* the elements of a set of numbers as a vector in increasing order
Ascending(S) ==
    CHOOSE v \in [0 .. Cardinality(S) - 1 -> S] :
        \A a, b \in DOMAIN v : a < b => v[a] < v[b]

\* lines 161-190, initialize(): per row the empty columns and the entries
\* that are not among the givens, both in increasing order
EmptyPositionsOf(p) ==
    [row \in Rows |->
        Ascending({col \in 0 .. NN - 1 : p[row * NN + col] = 0})]

MissingEntriesOf(p) ==
    [row \in Rows |->
        Ascending({e \in Entries :
                     \A col \in 0 .. NN - 1 : p[row * NN + col] # e})]

\* does every row of board b hold each of 1 .. NN exactly once?
RowsArePermutations(b) ==
    \A row \in Rows :
        \A e \in Entries :
            Cardinality({col \in 0 .. NN - 1 : b[row * NN + col] = e}) = 1

\* does board b agree with the partial board on its given cells?
AgreesWithGivens(b, p) == \A pos \in Positions : p[pos] # 0 => b[pos] = p[pos]

\* the ways to fill a row: each of 1 .. NN once, the givens in their cells
RowFillings(p, row) ==
    {g \in [0 .. NN - 1 -> Entries] :
        /\ \A a, b \in 0 .. NN - 1 : a # b => g[a] # g[b]
        /\ \A col \in 0 .. NN - 1 :
              p[row * NN + col] # 0 => g[col] = p[row * NN + col]}

\* the boards a caller may hand to mutate(): every board whose rows are
\* permutations that agree with the givens
ValidBoards(p) ==
    {[pos \in Positions |-> f[pos \div NN][pos % NN]] :
        f \in {f \in [Rows -> UNION {RowFillings(p, row) : row \in Rows}] :
                 \A row \in Rows : f[row] \in RowFillings(p, row)}}

\* ValidBoards, tabulated once per partial board
ValidBoardsOf == [p \in PartialBoards |-> ValidBoards(p)]

\* a caller that is not inside the populator
Idle == [pc |-> "idle", op |-> "none", original |-> NULL, board |-> NULL,
         row |-> 0, col |-> 0]

\* is caller k inside a populator call?
Active(k) == call[k].pc \in {"shuffle", "fill"}

PopulatorInit ==
    /\ engine = "populator"
    /\ options = <<>>
    /\ pc = "start"
    /\ best = NULL
    /\ result = NULL
    /\ prevGeneration = EmptyGeneration
    /\ nextGeneration = EmptyGeneration
    /\ max_init = 0
    /\ i = 0
    /\ generation = 0
    /\ deadRounds = 0
    /\ fitness_increased = FALSE
    /\ kill_threshold = 0
    /\ built = {}
    /\ swept = {}
    /\ replaced = {}
    /\ generateCalls = 0
    /\ called = FALSE
    /\ attained = FALSE
    /\ round = 0
    /\ iteration = 0
    /\ cur = NULL
    /\ next = NULL
    /\ chain = <<>>
    /\ partial_board \in PartialBoards
    /\ cell_candidates \in CandidateTables(partial_board)
    /\ rowEmptyPositions = EmptyPositionsOf(partial_board)
    /\ rowMissingEntries = MissingEntriesOf(partial_board)
    /\ call = [k \in Callers |-> Idle]
    /\ overlapped = FALSE
    /\ gen = 0
    /\ slot = <<>>
    /\ writes = <<>>
    /\ fanStart = <<>>

\* the engine's variables, which no populator call touches
engineVars == <<engine, options, pc, best, result, gaVars, generateCalls,
                called, attained, hcVars, fanVars>>

\* lines 57-61: generate() copies the partial board and starts on row 0
PopulatorGenerate(k) ==
    /\ engine = "populator" /\ call[k].pc = "idle"
    /\ call' = [call EXCEPT ![k] =
                  [pc |-> "shuffle", op |-> "generate", original |-> NULL,
                   board |-> partial_board, row |-> 0, col |-> 0]]
    /\ overlapped' = (overlapped \/ \E j \in Callers \ {k} : Active(j))
    /\ UNCHANGED <<engineVars, partial_board, cell_candidates,
                   rowEmptyPositions, rowMissingEntries>>

\* lines 76-83: mutate(original_board) copies the board and draws a row
PopulatorMutate(k) ==
    /\ engine = "populator" /\ call[k].pc = "idle"
    /\ \E c \in ValidBoardsOf[partial_board], row \in Rows :
         call' = [call EXCEPT ![k] =
                    [pc |-> "shuffle", op |-> "mutate", original |-> c,
                     board |-> c, row |-> row, col |-> 0]]
    /\ overlapped' = (overlapped \/ \E j \in Callers \ {k} : Active(j))
    /\ UNCHANGED <<engineVars, partial_board, cell_candidates,
                   rowEmptyPositions, rowMissingEntries>>

\* lines 137-141: fillRow shuffles rowMissingEntries[row] in place, through
\* the reference `entries`, and starts the column loop
FillRowShuffle(k) ==
    /\ engine = "populator" /\ call[k].pc = "shuffle"
    /\ \E shuffled \in Shuffles(rowMissingEntries[call[k].row]) :
         rowMissingEntries' =
            [rowMissingEntries EXCEPT ![call[k].row] = shuffled]
    /\ call' = [call EXCEPT ![k].pc = "fill", ![k].col = 0]
    /\ UNCHANGED <<engineVars, partial_board, cell_candidates,
                   rowEmptyPositions, overlapped>>

\* lines 142-150: one pass of the column loop.  An entry the cell's
\* candidates do not hold ends the attempt (the cells written so far keep
\* what they got) and the row is shuffled again.
FillRowPlace(k) ==
    LET row == call[k].row
        col == call[k].col
        entries == rowMissingEntries[row]
        pos == row * NN + rowEmptyPositions[row][col]
    IN  /\ engine = "populator" /\ call[k].pc = "fill"
        /\ col \in DOMAIN entries
        /\ IF entries[col] \notin cell_candidates[pos]
           THEN call' = [call EXCEPT ![k].pc = "shuffle"]
           ELSE call' = [call EXCEPT ![k].board[pos] = entries[col],
                                     ![k].col = col + 1]
        /\ UNCHANGED <<engineVars, partial_board, cell_candidates,
                       rowEmptyPositions, rowMissingEntries, overlapped>>

\* lines 152-153, then lines 60-63 or 85: the row is filled; generate()
\* goes on to the next row, and a finished call returns its board
FillRowDone(k) ==
    LET row == call[k].row
    IN  /\ engine = "populator" /\ call[k].pc = "fill"
        /\ call[k].col \notin DOMAIN rowMissingEntries[row]
        /\ IF call[k].op = "generate" /\ row < NN - 1
           THEN call' = [call EXCEPT ![k].pc = "shuffle", ![k].row = row + 1,
                                     ![k].col = 0]
           ELSE call' = [call EXCEPT ![k].pc = "returned"]
        /\ UNCHANGED <<engineVars, partial_board, cell_candidates,
                       rowEmptyPositions, rowMissingEntries, overlapped>>

PopulatorNext ==
    \E k \in Callers :
        \/ PopulatorGenerate(k)
        \/ PopulatorMutate(k)
        \/ FillRowShuffle(k)
        \/ FillRowPlace(k)
        \/ FillRowDone(k)

PopulatorSpec == PopulatorInit /\ [][PopulatorNext]_vars

-----------------------------------------------------------------------------
(* One generation of GeneticAlgorithm::run with its two parallel fan-outs    *)
(* (lines 116-134 and 160-163) followed statement by statement: the slots of *)
(* a `#pragma omp parallel for` are run by different threads, and every     *)
(* thread draws from the one generator `gen` of line 90.                     *)

\* The generator has GenPeriod states and a draw moves it to the next one.
GenPeriod == 2

GenStates == 0 .. GenPeriod - 1

\* populations of four: one with a tie (positions 0 and 1 hold different
\* candidates of fitness 1), and one of the least fit candidate alone
FanOutPopulations ==
    {[k \in 0 .. 3 |-> IF k = 0 THEN 1 ELSE IF k = 1 THEN 2 ELSE k - 2],
     [k \in 0 .. 3 |-> 0]}

\* crossover_probability 0 and 0.5; with fitness_death_threshold = 0 the
\* kill pass replaces the candidates of fitness 0
FanOutOptions ==
    [populator : {1},
     population_size : {4},
     max_generations : {2},
     crossover_probability : {0, 1},
     mutation_probability : {1},
     fitness_success_threshold : {MaxFitness},
     fitness_death_threshold : {0},
     fitness_death_factor : {0},
     permissible_dead_rounds : {UINT64_MAX}]

\* the locals of a pair-slot at the head of the loop body (line 119)
PairSlot == [pc |-> "coin", drawing |-> FALSE, branch |-> "none",
             p0Idx |-> 0, p1Idx |-> 0, c0 |-> NULL, c1 |-> NULL]

\* a slot of the kill fan-out at the head of the loop body (line 162)
KillSlot == [pc |-> "test", drawing |-> FALSE, branch |-> "none",
             p0Idx |-> 0, p1Idx |-> 0, c0 |-> NULL, c1 |-> NULL]

NoWrites == [k \in 0 .. 3 |-> <<>>]

\* the statements of a slot that draw from the generator: lines 119, 126
\* and 128 draw from `gen` itself; select (lines 120, 122), crossover,
\* mutate and generate draw from RNG::getGenerator() in the collaborators
DrawSites == {"coin", "select0", "select1", "crossover", "coin0", "mutate0",
              "coin1", "mutate1", "generate"}

\* the run is at the head of generation 0's build fan-out (line 116): the
\* initial population is in place and best is a copy of its first fittest
FanOutInit ==
    /\ engine = "fanout"
    /\ options \in FanOutOptions
    /\ pc = "build"
    /\ prevGeneration \in FanOutPopulations
    /\ best = Survive(prevGeneration[FirstMax(prevGeneration)])
    /\ result = NULL
    /\ nextGeneration = NewGeneration(options.population_size)
    /\ max_init = FirstMax(prevGeneration)
    /\ i = options.population_size
    /\ generation = 0
    /\ deadRounds = 0
    /\ fitness_increased = FALSE
    /\ kill_threshold = 0
    /\ built = {}
    /\ swept = {}
    /\ replaced = {}
    /\ generateCalls = 0
    /\ called = TRUE
    /\ attained = FALSE
    /\ round = 0
    /\ iteration = 0
    /\ cur = NULL
    /\ next = NULL
    /\ chain = <<>>
    /\ partial_board = <<>>
    /\ cell_candidates = <<>>
    /\ rowEmptyPositions = <<>>
    /\ rowMissingEntries = <<>>
    /\ call = <<>>
    /\ overlapped = FALSE
    /\ gen \in GenStates
    /\ slot = [s \in 0 .. (options.population_size \div 2) - 1 |-> PairSlot]
    /\ writes = NoWrites
    /\ fanStart = [gen |-> gen, prevGeneration |-> prevGeneration]

\* what no step of a fan-out changes
fanFrame == <<populatorVars, hcVars, engine, options, max_init, i,
              generation, built, swept, replaced, generateCalls, called,
              attained>>

\* is a slot other than s inside a draw?
OtherDrawing(s) == \E t \in DOMAIN slot : t # s /\ slot[t].drawing

\* The generator after slot s's draw.  The engine is not thread-safe: when
\* another slot is inside a draw as well, the two updates race and the
\* state that results is undefined.
Drawn(s) == IF OtherDrawing(s) THEN GenStates ELSE {(gen + 1) % GenPeriod}

\* slot s stores candidate c into nextGeneration[k]
Store(s, k, c) ==
    /\ nextGeneration' = [nextGeneration EXCEPT ![k] = c]
    /\ writes' = [writes EXCEPT ![k] = Append(@, s)]

\* a slot enters a draw: the call of the distribution, or of a collaborator
\* that draws, begins
SlotBeginDraw(s) ==
    /\ engine = "fanout" /\ pc \in {"build", "kill"}
    /\ s \in DOMAIN slot
    /\ slot[s].pc \in DrawSites /\ ~slot[s].drawing
    /\ slot' = [slot EXCEPT ![s].drawing = TRUE]
    /\ UNCHANGED <<fanFrame, pc, best, result, prevGeneration, nextGeneration,
                   deadRounds, fitness_increased, kill_threshold, gen, writes,
                   fanStart>>

\* line 119: the crossover coin decides the branch of pair-slot s
PairCoin(s) ==
    /\ engine = "fanout" /\ pc = "build"
    /\ s \in DOMAIN slot
    /\ slot[s].pc = "coin" /\ slot[s].drawing
    /\ gen' \in Drawn(s)
    /\ \E d \in Draws :
         slot' = [slot EXCEPT
                    ![s].pc = IF d < options.crossover_probability
                              THEN "select0" ELSE "keep",
                    ![s].branch = IF d < options.crossover_probability
                                  THEN "crossover" ELSE "survive",
                    ![s].drawing = FALSE]
    /\ UNCHANGED <<fanFrame, pc, best, result, prevGeneration, nextGeneration,
                   deadRounds, fitness_increased, kill_threshold, writes,
                   fanStart>>

\* lines 120-123: the selector returns the index of a parent
PairSelect(s) ==
    /\ engine = "fanout" /\ pc = "build"
    /\ s \in DOMAIN slot
    /\ slot[s].pc \in {"select0", "select1"} /\ slot[s].drawing
    /\ gen' \in Drawn(s)
    /\ \E idx \in Select(prevGeneration) :
         slot' = IF slot[s].pc = "select0"
                 THEN [slot EXCEPT ![s].p0Idx = idx, ![s].pc = "select1",
                                   ![s].drawing = FALSE]
                 ELSE [slot EXCEPT ![s].p1Idx = idx, ![s].pc = "crossover",
                                   ![s].drawing = FALSE]
    /\ UNCHANGED <<fanFrame, pc, best, result, prevGeneration, nextGeneration,
                   deadRounds, fitness_increased, kill_threshold, writes,
                   fanStart>>

\* line 125: crossover of the two parents gives the children c0 and c1
PairCrossover(s) ==
    /\ engine = "fanout" /\ pc = "build"
    /\ s \in DOMAIN slot
    /\ slot[s].pc = "crossover" /\ slot[s].drawing
    /\ gen' \in Drawn(s)
    /\ \E children \in Crossover(prevGeneration[slot[s].p0Idx],
                                 prevGeneration[slot[s].p1Idx]) :
         slot' = [slot EXCEPT ![s].c0 = children[1], ![s].c1 = children[2],
                              ![s].p0Idx = 0, ![s].p1Idx = 0,
                              ![s].pc = "coin0", ![s].drawing = FALSE]
    /\ UNCHANGED <<fanFrame, pc, best, result, prevGeneration, nextGeneration,
                   deadRounds, fitness_increased, kill_threshold, writes,
                   fanStart>>

\* lines 126 and 128: the mutation coin of a child; a child that is not to
\* be mutated is moved into its position
PairMutationCoin(s) ==
    /\ engine = "fanout" /\ pc = "build"
    /\ s \in DOMAIN slot
    /\ slot[s].pc \in {"coin0", "coin1"} /\ slot[s].drawing
    /\ gen' \in Drawn(s)
    /\ \E d \in Draws :
         IF d < options.mutation_probability
         THEN /\ slot' = [slot EXCEPT
                            ![s].pc = IF slot[s].pc = "coin0"
                                      THEN "mutate0" ELSE "mutate1",
                            ![s].drawing = FALSE]
              /\ UNCHANGED <<nextGeneration, writes>>
         ELSE IF slot[s].pc = "coin0"
              THEN /\ Store(s, 2 * s, slot[s].c0)
                   /\ slot' = [slot EXCEPT ![s].c0 = NULL, ![s].pc = "coin1",
                                           ![s].drawing = FALSE]
              ELSE /\ Store(s, 2 * s + 1, slot[s].c1)
                   /\ slot' = [slot EXCEPT ![s].c1 = NULL, ![s].pc = "done",
                                           ![s].drawing = FALSE]
    /\ UNCHANGED <<fanFrame, pc, best, result, prevGeneration, deadRounds,
                   fitness_increased, kill_threshold, fanStart>>

\* lines 127 and 129: mutate(child) is stored in the child's position
PairMutate(s) ==
    /\ engine = "fanout" /\ pc = "build"
    /\ s \in DOMAIN slot
    /\ slot[s].pc \in {"mutate0", "mutate1"} /\ slot[s].drawing
    /\ gen' \in Drawn(s)
    /\ IF slot[s].pc = "mutate0"
       THEN /\ \E n \in Mutate(slot[s].c0) : Store(s, 2 * s, n)
            /\ slot' = [slot EXCEPT ![s].c0 = NULL, ![s].pc = "coin1",
                                    ![s].drawing = FALSE]
       ELSE /\ \E n \in Mutate(slot[s].c1) : Store(s, 2 * s + 1, n)
            /\ slot' = [slot EXCEPT ![s].c1 = NULL, ![s].pc = "done",
                                    ![s].drawing = FALSE]
    /\ UNCHANGED <<fanFrame, pc, best, result, prevGeneration, deadRounds,
                   fitness_increased, kill_threshold, fanStart>>

\* lines 131-132: without crossover the pair is copied from the previous
\* generation, position by position
PairSurvive(s) ==
    /\ engine = "fanout" /\ pc = "build"
    /\ s \in DOMAIN slot
    /\ slot[s].pc = "keep"
    /\ nextGeneration' =
         [nextGeneration EXCEPT
            ![2 * s] = Survive(prevGeneration[2 * s]),
            ![2 * s + 1] = Survive(prevGeneration[2 * s + 1])]
    /\ writes' = [writes EXCEPT ![2 * s] = Append(@, s),
                                ![2 * s + 1] = Append(@, s)]
    /\ slot' = [slot EXCEPT ![s].pc = "done"]
    /\ UNCHANGED <<fanFrame, pc, best, result, prevGeneration, deadRounds,
                   fitness_increased, kill_threshold, gen, fanStart>>

\* has every slot of the running fan-out completed?
AllDone == \A s \in DOMAIN slot : slot[s].pc = "done"

\* lines 136-159, entered when every pair-slot has completed: the fittest
\* of the new generation, the success test, the dead rounds and the kill
\* threshold; then the kill fan-out begins
FanOutFittest ==
    /\ engine = "fanout" /\ pc = "build"
    /\ AllDone
    /\ LET fittest == nextGeneration[FirstMax(nextGeneration)]
           increased == Improves(fittest, best)
           newBest == IF increased THEN Survive(fittest) ELSE best
       IN  /\ best' = newBest
           /\ fitness_increased' = increased
           /\ IF GASucceeded(options, newBest)
              THEN /\ result' = newBest
                   /\ pc' = "returned"
                   /\ UNCHANGED <<deadRounds, kill_threshold, slot, writes,
                                  fanStart>>
              ELSE /\ deadRounds' = NextDeadRounds(increased, deadRounds)
                   /\ kill_threshold' = KillThreshold(options, newBest)
                   /\ pc' = "kill"
                   /\ slot' = [s \in 0 .. options.population_size - 1
                                 |-> KillSlot]
                   /\ writes' = NoWrites
                   /\ fanStart' = [gen |-> gen,
                                   prevGeneration |-> prevGeneration]
                   /\ UNCHANGED result
    /\ UNCHANGED <<fanFrame, prevGeneration, nextGeneration, gen>>

\* line 162: the test of kill slot s
KillTest(s) ==
    /\ engine = "fanout" /\ pc = "kill"
    /\ s \in DOMAIN slot
    /\ slot[s].pc = "test"
    /\ slot' = [slot EXCEPT
                  ![s].pc = IF Doomed(options, deadRounds, kill_threshold,
                                      nextGeneration[s])
                            THEN "generate" ELSE "done"]
    /\ UNCHANGED <<fanFrame, pc, best, result, prevGeneration, nextGeneration,
                   deadRounds, fitness_increased, kill_threshold, gen, writes,
                   fanStart>>

\* line 163: generate() replaces the candidate of kill slot s
KillGenerate(s) ==
    /\ engine = "fanout" /\ pc = "kill"
    /\ s \in DOMAIN slot
    /\ slot[s].pc = "generate" /\ slot[s].drawing
    /\ gen' \in Drawn(s)
    /\ \E g \in Generate : Store(s, s, g)
    /\ slot' = [slot EXCEPT ![s].pc = "done", ![s].drawing = FALSE]
    /\ UNCHANGED <<fanFrame, pc, best, result, prevGeneration, deadRounds,
                   fitness_increased, kill_threshold, fanStart>>

\* lines 164-168, entered when every kill slot has completed
FanOutEnd ==
    /\ engine = "fanout" /\ pc = "kill"
    /\ AllDone
    /\ deadRounds' = ResetDeadRounds(options, deadRounds)
    /\ pc' = "handover"
    /\ UNCHANGED <<fanFrame, best, result, prevGeneration, nextGeneration,
                   fitness_increased, kill_threshold, fanVars>>

FanOutNext ==
    \/ \E s \in 0 .. 3 : SlotBeginDraw(s)
    \/ \E s \in 0 .. 1 : PairCoin(s)
    \/ \E s \in 0 .. 1 : PairSelect(s)
    \/ \E s \in 0 .. 1 : PairCrossover(s)
    \/ \E s \in 0 .. 1 : PairMutationCoin(s)
    \/ \E s \in 0 .. 1 : PairMutate(s)
    \/ \E s \in 0 .. 1 : PairSurvive(s)
    \/ FanOutFittest
    \/ \E s \in 0 .. 3 : KillTest(s)
    \/ \E s \in 0 .. 3 : KillGenerate(s)
    \/ FanOutEnd

FanOutSpec == FanOutInit /\ [][FanOutNext]_vars

-----------------------------------------------------------------------------
(* The claims *)

Threshold == options.fitness_success_threshold

\* C1: a run without a populator (either engine) or with an odd
\* population_size (genetic engine) throws before anything else happens: it
\* is only ever at its start or thrown, only such a run throws, and when it
\* has thrown no populator or selector operation was called, generate() was
\* counted 0 times and no candidate exists.
C1_InvalidRunThrowsFirst ==
    /\ (engine = "GA" /\ (options.populator = NULL
                           \/ options.population_size % 2 = 1))
          => pc \in {"start", "thrown"}
    /\ (engine = "HC" /\ options.populator = NULL) => pc \in {"start", "thrown"}
    /\ pc = "thrown" =>
          /\ options.populator = NULL
                \/ (engine = "GA" /\ options.population_size % 2 = 1)
          /\ ~called /\ generateCalls = 0
          /\ best = NULL /\ result = NULL /\ cur = NULL /\ next = NULL
          /\ prevGeneration = EmptyGeneration
          /\ nextGeneration = EmptyGeneration

\* C1 witness: the genetic engine has thrown for an odd population_size
\* although a populator was set.
C1_Witness ==
    /\ engine = "GA" /\ pc = "thrown"
    /\ options.populator # NULL /\ options.population_size = 3

\* C2: once best is set, no step of either engine lowers its fitness, best
\* is only replaced by a strictly fitter candidate, and in the genetic
\* engine that candidate is (a copy of) a member of the new generation.
C2_BestNeverWorse ==
    [][best # NULL =>
         /\ best' # NULL
         /\ Fitness(best') >= Fitness(best)
         /\ best' # best => Fitness(best') > Fitness(best)
         /\ (engine = "GA" /\ best' # best /\ DOMAIN nextGeneration # {})
               => \E k \in DOMAIN nextGeneration : nextGeneration[k] = best'
      ]_vars

\* C2 witness: the second generation has just improved on best.
C2_Witness ==
    /\ engine = "GA" /\ pc = "fittest" /\ generation = 1
    /\ fitness_increased /\ Fitness(best) = MaxFitness

\* C3: success stops the run at once.  Genetic engine: when best reaches
\* the threshold after the fittest-update the next step returns best and
\* leaves the dead rounds, the kill threshold, both generations and the
\* generation counter alone; the engine is never at the dead-round update,
\* in the kill pass, at the hand-over or at a later generation with best at
\* or above the threshold.  Hill climbing: when cur reaches the threshold
\* after the accept step the next step returns cur, and the engine never
\* starts another iteration with cur at or above it.  Nothing follows a
\* return.
C3_SuccessStopsAtOnce ==
    [][/\ (engine = "GA" /\ pc = "fittest" /\ Fitness(best) >= Threshold)
            => /\ pc' = "returned" /\ result' = best
               /\ Fitness(result') >= Threshold
               /\ UNCHANGED <<deadRounds, kill_threshold, prevGeneration,
                              nextGeneration, generation, swept, replaced,
                              generateCalls>>
       /\ (engine = "GA" /\ pc' \in {"dead", "kill", "handover"})
            => Fitness(best') < Threshold
       /\ (engine = "GA" /\ pc' = "loop" /\ generation' >= 1)
            => Fitness(best') < Threshold
       /\ (engine = "HC" /\ pc = "accepted" /\ Fitness(cur) >= Threshold)
            => /\ pc' = "returned" /\ result' = cur
               /\ Fitness(result') >= Threshold
               /\ UNCHANGED <<round, iteration, best, called>>
       /\ (engine = "HC" /\ pc' = "iterate" /\ iteration' >= 1)
            => Fitness(cur') < Threshold
       /\ pc # "returned"
      ]_vars

\* C3 witness: the genetic engine returned a candidate that reached the
\* threshold in its second generation.
C3_Witness ==
    /\ engine = "GA" /\ pc = "returned" /\ generation = 1
    /\ Fitness(result) >= Threshold

\* C4: if generate() alone attains the success threshold (a member of the
\* initial population, or the starting candidate of round 0), the engine
\* ends in generation 0 / round 0 and what it returns reaches the
\* threshold: it never goes on to the dead-round update, the kill pass, the
\* hand-over, a later generation or a later round, and it returns no null
\* pointer and no candidate below the threshold.
C4_GenerateAloneEndsAtZero ==
    attained =>
        /\ generation = 0 /\ round = 0
        /\ pc \notin {"dead", "kill", "handover", "crashed"}
        /\ pc = "returned" => result # NULL /\ Fitness(result) >= Threshold

\* C4, the genetic engine alone (this half holds).
C4_GeneticHalf == engine = "GA" => C4_GenerateAloneEndsAtZero

\* C4 witness for the genetic half: the initial population attained the
\* threshold and the run returned from generation 0.
C4_GeneticWitness ==
    /\ engine = "GA" /\ attained /\ pc = "returned"
    /\ options.max_generations = 2

\* C5: a run that returns returns an actual candidate, never a null
\* pointer, and when the budget ran out below the threshold the returned
\* candidate is the running best.
C5_ReturnsACandidate ==
    pc = "returned" =>
        /\ result # NULL
        /\ Fitness(result) < Threshold => result = best

\* C5, the genetic engine alone (this half holds).
C5_GeneticHalf == engine = "GA" => C5_ReturnsACandidate

\* C5 witness for the genetic half: max_generations = 1 returns the best of
\* the initial population, below the threshold.
C5_GeneticWitness ==
    /\ engine = "GA" /\ pc = "returned" /\ options.max_generations = 1
    /\ options.population_size = 2 /\ Fitness(result) < Threshold
    /\ \A k \in DOMAIN prevGeneration :
          Fitness(prevGeneration[k]) <= Fitness(result)

Slots == 0 .. options.population_size - 1

ForcedReset == deadRounds >= options.permissible_dead_rounds

\* C6: in a generation that does not end the run, fitness_increased tells
\* whether some candidate of the new generation is strictly fitter than the
\* previous best, the dead-round update sets dead_rounds to 0 if so and
\* adds exactly 1 otherwise, and dead_rounds keeps the value it had at the
\* end of the previous generation until that update.
C6_DeadRoundsUpdate ==
    [][engine = "GA" =>
         /\ (pc = "build" /\ pc' = "fittest" /\ Slots # {})
              => fitness_increased' =
                   (\E k \in Slots :
                       Fitness(nextGeneration[k]) > Fitness(best))
         /\ pc = "fittest" => fitness_increased' = fitness_increased
         /\ pc = "dead" =>
              deadRounds' = IF fitness_increased THEN 0 ELSE deadRounds + 1
         /\ pc \in {"handover", "loop", "build", "fittest"}
              => deadRounds' = deadRounds
      ]_vars

\* C6 witness: with no forced reset configured, the second generation did
\* not improve and dead_rounds is 1: it was 0 after the first generation.
C6_Witness ==
    /\ engine = "GA" /\ pc = "kill" /\ generation = 1
    /\ options.permissible_dead_rounds = UINT64_MAX
    /\ ~fitness_increased /\ deadRounds = 1

\* C7: when dead_rounds >= permissible_dead_rounds after the dead-round
\* update, the kill pass replaces every slot it sweeps by a call of
\* generate() (population_size calls once the pass is complete), and
\* dead_rounds is reset to 0 only by the step after the whole pass and not
\* during it; with permissible_dead_rounds = 1 a generation without
\* improvement always brings this about.
C7_ForcedRegeneration ==
    [][engine = "GA" =>
         /\ (pc' = "kill" /\ ForcedReset')
              => /\ replaced' = swept'
                 /\ generateCalls' = Cardinality(swept')
         /\ (pc = "kill" /\ pc' = "kill") => deadRounds' = deadRounds
         /\ (pc = "kill" /\ pc' = "handover")
              => /\ swept = Slots
                 /\ IF ForcedReset
                    THEN /\ replaced = Slots
                         /\ generateCalls = options.population_size
                         /\ deadRounds' = 0
                    ELSE deadRounds' = deadRounds
         /\ (pc = "dead" /\ ~fitness_increased
               /\ options.permissible_dead_rounds = 1) => ForcedReset'
      ]_vars

\* C7 witness: permissible_dead_rounds = 1, death thresholds disabled, the
\* first generation did not improve and the whole population was
\* regenerated.
C7_Witness ==
    /\ engine = "GA" /\ pc = "kill" /\ generation = 0
    /\ options.permissible_dead_rounds = 1
    /\ options.fitness_death_threshold = 0
    /\ options.fitness_death_factor = 0
    /\ options.population_size = 2
    /\ deadRounds = 1 /\ swept = Slots /\ replaced = Slots
    /\ generateCalls = 2

\* fitness <= max(fitness_death_threshold, fitness_death_factor x
\* best.fitness) over the reals, the factor counted in halves
AtOrBelowKillLine(c) ==
    2 * Fitness(c) <= Max(2 * options.fitness_death_threshold,
                          options.fitness_death_factor * Fitness(best))

C9_ZeroDefaultsNeverKill ==
    (/\ engine = "GA" /\ pc = "kill"
     /\ options.fitness_death_threshold = 0
     /\ options.fitness_death_factor = 0
     /\ ~ForcedReset)
        => replaced = {} /\ generateCalls = 0

\* C10: a run that passed validation has an even population_size, and
\* every generation holds exactly population_size candidates: the previous
\* generation from the end of the initial loop on, the next generation from
\* the completion of the build fan-out (before the fittest is determined)
\* through the kill pass to the hand-over.
C10_PopulationSizeConstant ==
    (engine = "GA" /\ pc \notin {"start", "thrown", "crashed"}) =>
        /\ options.population_size % 2 = 0
        /\ DOMAIN prevGeneration = Slots
        /\ (pc # "init" \/ i = options.population_size)
             => \A k \in Slots : prevGeneration[k] \in Candidates
        /\ pc \in {"build", "fittest", "dead", "kill", "handover"}
             => DOMAIN nextGeneration = Slots
        /\ (pc \in {"fittest", "dead", "kill", "handover"}
              \/ (pc = "build"
                   /\ built = 0 .. (options.population_size \div 2) - 1))
             => \A k \in Slots : nextGeneration[k] \in Candidates

\* C10 witness: two whole generations (build, kill pass, hand-over and
\* shuffle) lie behind a population of two.
C10_Witness ==
    /\ engine = "GA" /\ pc = "loop" /\ generation = 2
    /\ options.population_size = 2
    /\ \A k \in Slots : prevGeneration[k] \in Candidates

\* the last entry of chain: <<the candidate the neighbour was generated
\* from, the neighbour>>
LastGenerated == chain[Len(chain)]

\* C11: within a round every iteration generates the neighbour from the
\* current candidate, and after the accept step cur is that neighbour
\* exactly when accept returned true (default policy: the neighbour is
\* strictly fitter) and is the candidate it had been otherwise; under an
\* always-accept policy, after N iterations below the threshold, N
\* neighbours were generated, each from its predecessor in the chain
\* start -> n1 -> ... -> nN, and cur is nN.
C11_NeighbourChain ==
    (engine = "HC" /\ pc \in {"iterate", "accepted"}) =>
        /\ Len(chain) >= 1 /\ chain[1][1] = NULL
        /\ pc = "accepted" =>
              /\ Len(chain) = iteration + 2
              /\ next = LastGenerated[2]
              /\ options.accept = "always" => cur = next
              /\ options.accept = "improving" =>
                    cur = IF Fitness(next) > Fitness(LastGenerated[1])
                          THEN next ELSE LastGenerated[1]
        /\ pc = "iterate" =>
              /\ Len(chain) = iteration + 1
              /\ cur \in {LastGenerated[1], LastGenerated[2]}
              /\ Fitness(cur) < Threshold \/ iteration = 0
        /\ \A k \in 2 .. Len(chain) :
              /\ chain[k][1] \in {chain[k - 1][1], chain[k - 1][2]}
              /\ chain[k][1] # NULL
        /\ options.accept = "always" =>
              /\ cur = LastGenerated[2]
              /\ \A k \in 2 .. Len(chain) : chain[k][1] = chain[k - 1][2]

\* C11 witness: always-accept, two iterations below the threshold lie
\* behind, and cur is the second neighbour, which was generated from the
\* first, which was generated from the start; the three differ.
C11_Witness ==
    /\ engine = "HC" /\ pc = "iterate" /\ options.accept = "always"
    /\ iteration = 2 /\ Len(chain) = 3
    /\ cur = chain[3][2] /\ chain[3][1] = chain[2][2]
    /\ chain[2][1] = chain[1][2]
    /\ Cardinality({chain[1][2], chain[2][2], chain[3][2]}) = 3

\* the rows in which boards a and b differ
RowsDiffering(a, b) ==
    {row \in Rows :
        \E col \in 0 .. NN - 1 : a[row * NN + col] # b[row * NN + col]}

\* what C12 says of a mutate() call of caller k that has returned
MutateReturnedValid(k) ==
    LET c == call[k].original
        b == call[k].board
        row == call[k].row
    IN  /\ RowsArePermutations(b)
        /\ AgreesWithGivens(b, partial_board)
        /\ RowsDiffering(b, c) \subseteq {row}
        /\ \A col \in DOMAIN rowEmptyPositions[row] :
              b[row * NN + rowEmptyPositions[row][col]]
                 \in cell_candidates[row * NN + rowEmptyPositions[row][col]]
        /\ c \in ValidBoardsOf[partial_board]

\* C12: mutate(c), for a board c whose rows each hold 1 .. NN exactly once
\* and agree with the givens, returns a board with the same two properties
\* that differs from c in at most one row and holds in each empty position
\* of that row an entry of the cell's candidate set; c is left as it was.
C12_MutateReturnsValid ==
    \A k \in Callers :
        (engine = "populator" /\ call[k].pc = "returned"
           /\ call[k].op = "mutate") => MutateReturnedValid(k)

\* C12, for calls that never ran beside another populator call (this half
\* holds).
C12_SequentialHalf == ~overlapped => C12_MutateReturnsValid

\* C12 witness for the sequential half: a mutate() call that ran alone
\* returned a board that differs from the original, after a failed attempt
\* had been possible (the candidates are restricted).
C12_SequentialWitness ==
    /\ engine = "populator" /\ ~overlapped
    /\ call[1].pc = "returned" /\ call[1].op = "mutate"
    /\ call[2].pc = "idle"
    /\ RowsDiffering(call[1].board, call[1].original) # {}
    /\ \E pos \in Positions : cell_candidates[pos] # Entries

\* the slots that have stored into position k during the running fan-out
Writers(k) == {writes[k][j] : j \in DOMAIN writes[k]}

\* C13, the writes: a pair-slot stores only into its positions 2i and 2i+1
\* and a kill slot only into its position i, no position is stored into
\* twice, and when the build fan-out has completed every position was
\* stored into exactly once (this half holds).
C13_DisjointWrites ==
    (engine = "fanout" /\ pc \in {"build", "kill"}) =>
        \A k \in DOMAIN nextGeneration :
            /\ Len(writes[k]) <= 1
            /\ pc = "build" => Writers(k) \subseteq {k \div 2}
            /\ pc = "kill" => Writers(k) \subseteq {k}
            /\ (pc = "build" /\ AllDone) => Len(writes[k]) = 1

\* C13 witness for the writes: both pair-slots have completed, one bred
\* and one copied its pair.
C13_DisjointWitness ==
    /\ engine = "fanout" /\ pc = "build" /\ AllDone
    /\ \A k \in 0 .. 3 : writes[k] = <<k \div 2>>
    /\ nextGeneration[0] = prevGeneration[0]
    /\ nextGeneration[1] = prevGeneration[1]
    /\ nextGeneration[2] # prevGeneration[2]

\* C13: in both fan-outs, however the slots interleave, each slot writes
\* only its own output positions, every output position is written by one
\* slot only, and the shared state is only read: while a fan-out runs, the
\* previous generation and the randomness source are as the fan-out found
\* them.
C13_SlotsIsolated ==
    /\ C13_DisjointWrites
    /\ (engine = "fanout" /\ pc \in {"build", "kill"}) =>
          /\ prevGeneration = fanStart.prevGeneration
          /\ gen = fanStart.gen

\* the slots that are inside a draw
Drawing == {s \in DOMAIN slot : slot[s].drawing}

\* C14: the draws from the generator exclude each other: in no state are
\* two slots of a fan-out inside a draw from the same generator.
C14_DrawsExcludeEachOther ==
    engine = "fanout" => Cardinality(Drawing) <= 1

\* the candidates of maximal fitness in a vector, and the lowest index one
\* of them is found at
Fittest(v) ==
    {k \in DOMAIN v : \A j \in DOMAIN v : Fitness(v[j]) <= Fitness(v[k])}

LowestFittest(v) == CHOOSE k \in Fittest(v) : \A j \in Fittest(v) : k <= j

\* the first n positions of a vector
Prefix(v, n) == [k \in 0 .. n - 1 |-> v[k]]

\* C15: ties are broken on the lowest index.  During the initial loop
\* max_init is the lowest index of maximal fitness among the candidates
\* generated so far, the initial best is the candidate at the lowest index
\* of maximal fitness of the initial population, and in a later generation
\* the candidate compared against best is the one at the lowest index of
\* maximal fitness of the new generation: if it improved on best, best is
\* that candidate, and if not, it is no fitter than best.
C15_LowestIndexBreaksTies ==
    (engine = "GA" /\ options.population_size > 0) =>
        /\ (pc = "init" /\ i >= 1)
              => max_init = LowestFittest(Prefix(prevGeneration, i))
        /\ (pc = "loop" /\ generation = 0)
              => best = prevGeneration[LowestFittest(prevGeneration)]
        /\ pc = "fittest" =>
              LET first == nextGeneration[LowestFittest(nextGeneration)]
              IN  IF fitness_increased
                  THEN best = first
                  ELSE Fitness(first) <= Fitness(best)

\* C15 witness: the two candidates of the new generation are different
\* and equally fit, both fitter than best was, and best is now the one at
\* index 0.
C15_Witness ==
    /\ engine = "GA" /\ pc = "fittest" /\ options.population_size = 2
    /\ fitness_increased
    /\ nextGeneration[0] # nextGeneration[1]
    /\ Fitness(nextGeneration[0]) = Fitness(nextGeneration[1])
    /\ best = nextGeneration[0]

\* C15 with two pair-slots, in whatever order they ran: after the fittest
\* was determined (no kill slot has stored yet) best is the candidate at
\* the lowest index of maximal fitness if it improved, and no less fit
\* than that candidate if not.
C15_AnySlotOrder ==
    (/\ engine = "fanout"
     /\ pc \in {"kill", "returned"}
     /\ \A k \in DOMAIN writes : writes[k] = <<>> \/ pc = "returned") =>
        LET first == nextGeneration[LowestFittest(nextGeneration)]
        IN  IF fitness_increased
            THEN best = first
            ELSE Fitness(first) <= Fitness(best)

\* the positions of run() inside a generation after generation 0's
\* initialization (lines 112-181)
InGeneration == pc \in {"build", "fittest", "dead", "kill", "handover"}

\* C16: the run stays within its generation budget.  After generation 0
\* was initialized at most max_generations - 1 further generations are
\* executed, for every max_generations, 0 and 1 included: a further
\* generation in progress is one of the first max_generations - 1, as many
\* generations lie behind the run as its counter says and never more than
\* max_generations - 1, and a run that returns below the threshold returns
\* best with the budget used up.
C16_WithinGenerationBudget ==
    engine = "GA" =>
        /\ InGeneration => generation + 1 <= options.max_generations - 1
        /\ pc \in {"loop", "returned"}
              => generation <= Max(0, options.max_generations - 1)
        /\ (pc = "returned" /\ Fitness(result) < Threshold)
              => /\ result = best
                 /\ generation = Max(0, options.max_generations - 1)

\* C16, for max_generations >= 1 (this half holds).
C16_PositiveBudgetHalf ==
    (engine = "GA" /\ options.max_generations >= 1)
        => C16_WithinGenerationBudget

\* C16 witness for the positive half: max_generations = 2, one further
\* generation was executed and the run returned best below the threshold.
C16_PositiveBudgetWitness ==
    /\ engine = "GA" /\ pc = "returned" /\ options.max_generations = 2
    /\ options.population_size = 2
    /\ generation = 1 /\ result = best /\ Fitness(result) < Threshold

\* the positions of a pair-slot in the crossover branch (lines 120-129)
BreedingSites == {"select0", "select1", "crossover", "coin0", "mutate0",
                  "coin1", "mutate1"}

\* C17: a pair-slot takes exactly one of two branches, decided by its
\* first draw.  On crossover it obtains two parent indices within
\* [0, population_size) from the selector, crossover produces two children
\* before anything is stored, and each child in turn is stored in its
\* position 2i or 2i+1 either as it is or mutated, as its own draw
\* decides.  Otherwise positions 2i and 2i+1 receive copies of the
\* previous generation's candidates at 2i and 2i+1.  The previous
\* generation is never modified, and with crossover_probability = 0 no
\* slot breeds and the completed build equals the previous generation
\* position by position.
C17_PairSlotBranches ==
    [][(engine = "fanout" /\ pc = "build") =>
         /\ prevGeneration' = prevGeneration
         /\ pc' = "build" => \A s \in DOMAIN slot :
              LET here == slot[s]
                  there == slot'[s]
              IN  /\ here.pc = "coin" =>
                        /\ there.pc \in {"coin", "select0", "keep"}
                        /\ options.crossover_probability = 0
                              => there.pc # "select0"
                        /\ there.branch =
                              CASE there.pc = "select0" -> "crossover"
                                [] there.pc = "keep" -> "survive"
                                [] OTHER -> "none"
                  /\ here.pc # "coin" => there.branch = here.branch
                  /\ here.pc \in BreedingSites
                        => /\ here.branch = "crossover"
                           /\ there.pc \in BreedingSites \cup {"done"}
                  /\ (here.pc = "select0" /\ there.pc = "select1")
                        => there.p0Idx \in 0 .. options.population_size - 1
                  /\ (here.pc = "select1" /\ there.pc = "crossover")
                        => /\ there.p1Idx \in 0 .. options.population_size - 1
                           /\ there.p0Idx = here.p0Idx
                  /\ (here.pc = "crossover" /\ there.pc = "coin0")
                        => /\ there.c0 \in Candidates
                           /\ there.c1 \in Candidates
                           /\ writes'[2 * s] = <<>>
                           /\ writes'[2 * s + 1] = <<>>
                  /\ (here.pc = "coin0" /\ there.pc = "coin1")
                        => /\ nextGeneration'[2 * s] = here.c0
                           /\ there.c1 = here.c1
                  /\ (here.pc = "coin0" /\ there.pc = "mutate0")
                        => /\ nextGeneration' = nextGeneration
                           /\ there.c0 = here.c0 /\ there.c1 = here.c1
                  /\ (here.pc = "mutate0" /\ there.pc = "coin1")
                        => /\ nextGeneration'[2 * s] \in Candidates
                           /\ writes'[2 * s] = <<s>>
                           /\ there.c1 = here.c1
                  /\ (here.pc = "coin1" /\ there.pc = "done")
                        => nextGeneration'[2 * s + 1] = here.c1
                  /\ (here.pc = "mutate1" /\ there.pc = "done")
                        => /\ nextGeneration'[2 * s + 1] \in Candidates
                           /\ writes'[2 * s + 1] = <<s>>
                  /\ here.pc \in {"coin1", "mutate1"}
                        => nextGeneration'[2 * s] = nextGeneration[2 * s]
                  /\ here.pc = "keep" =>
                        /\ here.branch = "survive"
                        /\ there.pc \in {"keep", "done"}
                        /\ there.pc = "done" =>
                              /\ nextGeneration'[2 * s] = prevGeneration[2 * s]
                              /\ nextGeneration'[2 * s + 1] =
                                    prevGeneration[2 * s + 1]
                  /\ here.pc = "done" =>
                        /\ there.pc = "done"
                        /\ nextGeneration'[2 * s] = nextGeneration[2 * s]
                        /\ nextGeneration'[2 * s + 1] =
                              nextGeneration[2 * s + 1]
         /\ (options.crossover_probability = 0 /\ AllDone)
              => nextGeneration = prevGeneration
      ]_vars

\* C17 witness: with crossover_probability = 0.5, pair-slot 0 has copied
\* its pair, two different candidates, while pair-slot 1 bred and its
\* first child was stored.
C17_Witness ==
    /\ engine = "fanout" /\ pc = "build"
    /\ slot[0].pc = "done" /\ slot[0].branch = "survive"
    /\ nextGeneration[0] = prevGeneration[0]
    /\ nextGeneration[1] = prevGeneration[1]
    /\ prevGeneration[0] # prevGeneration[1]
    /\ slot[1].branch = "crossover" /\ slot[1].pc = "coin1"
    /\ nextGeneration[2] \in Candidates

\* C17 with crossover_probability = 0: the build has completed and the new
\* generation equals the previous one, whose candidates differ.
C17_NoCrossoverWitness ==
    /\ engine = "fanout" /\ pc = "build" /\ AllDone
    /\ options.crossover_probability = 0
    /\ nextGeneration = prevGeneration
    /\ prevGeneration[0] # prevGeneration[1]

\* is best at least as fit as every candidate of the vector?
BestDominates(v) == \A k \in DOMAIN v : Fitness(v[k]) <= Fitness(best)

\* C18: best is at least as fit as every candidate of the current
\* population: of the new generation from the fittest-update through the
\* kill pass to the hand-over, the candidates the kill pass generated
\* included, and of the previous generation at every generation boundary
\* and when the run returns.
C18_BestDominatesPopulation ==
    (engine = "GA" /\ best # NULL) =>
        /\ pc \in {"fittest", "dead", "kill", "handover"}
              => BestDominates(nextGeneration)
        /\ pc \in {"loop", "returned"} => BestDominates(prevGeneration)
        /\ pc = "returned" => result = best

\* C18, up to the kill pass (this half holds): best dominates the initial
\* population, and the new generation as the build left it.
C18_BeforeKillHalf ==
    (engine = "GA" /\ best # NULL) =>
        /\ pc \in {"fittest", "dead"} => BestDominates(nextGeneration)
        /\ (pc = "loop" /\ generation = 0) => BestDominates(prevGeneration)

\* C18 witness for that half: the fittest of a generation of two has
\* replaced best.
C18_BeforeKillWitness ==
    /\ engine = "GA" /\ pc = "dead" /\ fitness_increased
    /\ options.population_size = 2
    /\ BestDominates(nextGeneration)

\* C19: in a run that passed validation, population_size = 0 included,
\* every index used on the previous or the next generation lies in
\* [0, population_size): the index of the initial loop, the positions of
\* the pair-slots and kill slots, and in particular max_init and the
\* result of the fittest search when they are dereferenced (line 107, and
\* line 138 once the build has completed); no run ends in an access out
\* of bounds.
C19_IndicesInBounds ==
    (engine = "GA" /\ pc \notin {"start", "thrown"}) =>
        /\ pc # "crashed"
        /\ (pc = "init" /\ i < options.population_size)
              => i \in DOMAIN prevGeneration
        /\ (pc = "init" /\ i >= options.population_size)
              => max_init \in DOMAIN prevGeneration
        /\ pc = "build" =>
              \A s \in built :
                 {2 * s, 2 * s + 1} \subseteq DOMAIN nextGeneration
        /\ (pc = "build"
              /\ built = 0 .. (options.population_size \div 2) - 1)
              => DOMAIN nextGeneration # {}
        /\ pc = "kill" => swept \subseteq DOMAIN nextGeneration

\* C19, for a population that is not empty (this half holds).
C19_NonEmptyHalf ==
    (engine = "GA" /\ options.population_size > 0) => C19_IndicesInBounds

\* C19 witness for that half: a population of two, the kill pass has
\* swept both slots.
C19_NonEmptyWitness ==
    /\ engine = "GA" /\ pc = "kill" /\ options.population_size = 2
    /\ swept = {0, 1} /\ built = {0}
    /\ max_init \in DOMAIN prevGeneration

\* caller k is inside std::shuffle on rowMissingEntries[row] (line 139)
WritesTable(k, row) == call[k].pc = "shuffle" /\ call[k].row = row

\* caller k is inside fillRow(row): it shuffles rowMissingEntries[row] or
\* reads its size and entries in the column loop (lines 139-149)
UsesTable(k, row) == call[k].pc \in {"shuffle", "fill"} /\ call[k].row = row

\* C20, the race alone: no call writes a per-row table while another call
\* reads or writes the same table.
C20_NoTableRace ==
    engine = "populator" =>
        \A j, k \in Callers :
            j # k => \A row \in Rows :
                        ~(WritesTable(j, row) /\ UsesTable(k, row))

\* C20: generate() and mutate() write no populator state shared between
\* calls (the per-row tables stay as initialize() built them), and no
\* call writes a per-row table while another call reads or writes the
\* same table.
C20_NoSharedPopulatorWrites ==
    engine = "populator" =>
        /\ rowMissingEntries = MissingEntriesOf(partial_board)
        /\ rowEmptyPositions = EmptyPositionsOf(partial_board)
        /\ C20_NoTableRace

\* max(1, permissible_dead_rounds)
DeadRoundsLimit == Max(1, options.permissible_dead_rounds)

\* C21: dead_rounds is bounded by the configured limit.  It never exceeds
\* max(1, permissible_dead_rounds), and outside the kill pass (from the
\* reset that follows the pass, through the hand-over and the loop head,
\* to the dead-round update of the next generation, and at a return) it
\* is below max(1, permissible_dead_rounds).
C21_DeadRoundsBounded ==
    engine = "GA" =>
        /\ deadRounds >= 0
        /\ deadRounds <= DeadRoundsLimit
        /\ pc # "kill" => deadRounds < DeadRoundsLimit

\* C21 witness: permissible_dead_rounds = 2 and two generations without
\* improvement: dead_rounds was 1 at the end of the first, reached 2 in
\* the second, and the reset after the kill pass has set it to 0.
C21_Witness ==
    /\ engine = "GA" /\ pc = "handover" /\ generation = 1
    /\ options.permissible_dead_rounds = 2
    /\ ~fitness_increased /\ deadRounds = 0
    /\ replaced = Slots /\ options.population_size = 2

\* C21, a generation that ends with dead_rounds above 0 and below the
\* limit: permissible_dead_rounds = 2, one generation without improvement.
C21_BelowLimitWitness ==
    /\ engine = "GA" /\ pc = "loop" /\ generation = 1
    /\ options.permissible_dead_rounds = 2 /\ deadRounds = 1

\* C21, the limit attained: with permissible_dead_rounds = 0 dead_rounds
\* is 1 during a kill pass.
C21_LimitAttained ==
    /\ engine = "GA" /\ pc = "kill"
    /\ options.permissible_dead_rounds = 0 /\ deadRounds = 1

====
